---- MODULE Spec2Model ----
(***************************************************************************)
(* Tree-view widget framework of the editors' interface code: the item     *)
(* container, the items, the view's reconciliation against the previous    *)
(* redraw and the builder's three phases.                                  *)
(*                                                                         *)
(* Items live in a heap `items` (a sequence; an item's address is its      *)
(* index).  The view is the container with address ViewPtr.  A pointer is  *)
(* ViewPtr, an item's index or NullPtr.                                     *)
(***************************************************************************)
EXTENDS Integers, Sequences, FiniteSets, TLC

VARIABLES
  view,           \* the container part of the uiAbstractTreeView of this redraw
  items,          \* heap of the uiBasicTreeViewItem objects made in this redraw
  old,            \* the matching view of new_block.oldblock: [exists, view, items]
  pc,             \* position in uiTreeViewBuilder::build_tree_view
  rows,           \* the tree-row buttons laid out by this redraw, in layout order
  has_view,       \* a view of this region has been drawn before
  user_collapsed, \* items the user's last click on their row collapsed (history)
  visited,        \* the last foreach_item call on the tree as it stands:
                  \* [called, skip_collapsed, items handed to iter_fn in order]
  node,           \* the last execution of the OBJ import node: what the import
                  \* returned, the warnings surfaced and the output set
  gone            \* labels of the top-level items that were open in the view
                  \* freed last and have no top-level item in the view drawn
                  \* after it (history)

vars == <<view, items, old, pc, rows, has_view, user_collapsed, visited, node, gone>>

\* ------------------------------------------------------------------ bounds

\* Items one build_tree creates.
MaxItems == 3

\* Labels build_tree draws from in the repeated-redraw specification.
Labels == {"A", "B"}

\* The label build_tree uses in the specification with activation.
ActiveLabels == {"A"}

\* Labels build_tree draws from in the first-redraw specification.
SceneLabels == {"Scene", "Mesh", "Camera"}

\* ---------------------------------------------------------------- pointers

NullPtr == -1

ViewPtr == 0

ICON_NONE == "ICON_NONE"

ICON_TRIA_RIGHT == "ICON_TRIA_RIGHT"

ICON_TRIA_DOWN == "ICON_TRIA_DOWN"

\* A freshly constructed container: no children, root_ and parent_ null.
uiTreeViewItemContainer == [children_ |-> <<>>, root_ |-> NullPtr, parent_ |-> NullPtr]

\* A freshly constructed basic item carrying `label`.
uiBasicTreeViewItem(label) ==
  [children_ |-> <<>>, root_ |-> NullPtr, parent_ |-> NullPtr,
   is_open_ |-> FALSE, is_active_ |-> FALSE, label_ |-> label]

\* A tree is a view with the heap of its items.
Tree(v, its) == [view |-> v, items |-> its]

\* The container at address c of tree t.
Container(t, c) == IF c = ViewPtr THEN t.view ELSE t.items[c]

\* Tree t with field f of the container at address c set to x.
SetField(t, c, f, x) ==
  IF c = ViewPtr
    THEN [t EXCEPT !.view = [t.view EXCEPT ![f] = x]]
    ELSE [t EXCEPT !.items = [t.items EXCEPT ![c] = [t.items[c] EXCEPT ![f] = x]]]

ItemIds(t) == 1..Len(t.items)

Range(s) == {s[k] : k \in 1..Len(s)}

\* ------------------------------------------------------------ add_tree_item

\* add_tree_item putting the item in front of the children.
add_tree_item_front(t, c, i) ==
  LET t1 == SetField(t, c, "children_", <<i>> \o Container(t, c).children_)
      t2 == IF Container(t1, c).root_ = NullPtr
              THEN SetField(t1, c, "root_", c)
              ELSE t1
      root == Container(t2, c).root_
      t3 == SetField(t2, i, "root_", root)
  IN IF root # c THEN SetField(t3, i, "parent_", c) ELSE t3

\* uiTreeViewItemContainer::add_tree_item called on container c with item i.
add_tree_item(t, c, i) ==
  LET t1 == SetField(t, c, "children_", Append(Container(t, c).children_, i))
      t2 == IF Container(t1, c).root_ = NullPtr
              THEN SetField(t1, c, "root_", c)
              ELSE t1
      root == Container(t2, c).root_
      t3 == SetField(t2, i, "root_", root)
  IN IF root # c THEN SetField(t3, i, "parent_", c) ELSE t3

\* The item add_tree_item returns a reference to: the last child of c.
add_tree_item_result(t, c, i) ==
  LET ch == Container(add_tree_item(t, c, i), c).children_ IN ch[Len(ch)]

\* The convenience wrapper: construct an item from its arguments and add it.
add_tree_item_new(t, c, label) ==
  add_tree_item([t EXCEPT !.items = Append(t.items, uiBasicTreeViewItem(label))],
                c, Len(t.items) + 1)

\* ----------------------------------------------------------------- items

is_collapsible(t, i) == t.items[i].children_ # <<>>

\* A closed item counts as collapsed, children or not.
is_collapsed_closed(t, i) == ~t.items[i].is_open_

is_collapsed(t, i) == is_collapsible(t, i) /\ ~t.items[i].is_open_

\* The click always opens the item.
toggle_collapsed_expand(t, i) == SetField(t, i, "is_open_", TRUE)

toggle_collapsed(t, i) == SetField(t, i, "is_open_", ~t.items[i].is_open_)

set_collapsed(t, i, collapsed) == SetField(t, i, "is_open_", ~collapsed)

\* uiAbstractTreeViewItem::set_active.
set_active(t, i, value) == SetField(t, i, "is_active_", value)

RECURSIVE count_parents_from(_, _)
\* The loop of count_parents, entered with the pointer `parent`.
count_parents_from(t, parent) ==
  IF parent = NullPtr THEN 0
  ELSE 1 + count_parents_from(t, Container(t, parent).parent_)

\* uiAbstractTreeViewItem::count_parents of item i.
count_parents(t, i) == count_parents_from(t, t.items[i].parent_)

\* uiBasicTreeViewItem::get_draw_icon; the item's own icon is the
\* constructor's default, ICON_NONE.
get_draw_icon(t, i) ==
  IF is_collapsible(t, i)
    THEN (IF is_collapsed(t, i) THEN ICON_TRIA_RIGHT ELSE ICON_TRIA_DOWN)
    ELSE ICON_NONE

\* --------------------------------------------------------------- traversal

RECURSIVE foreach_from_break(_, _, _, _)
\* foreach_item_recursive leaving the loop at a collapsed child (`break` for
\* `continue`).
foreach_from_break(t, c, skip_collapsed, k) ==
  LET ch == Container(t, c).children_
  IN IF k > Len(ch) THEN <<>>
     ELSE IF skip_collapsed /\ is_collapsed(t, ch[k]) THEN <<ch[k]>>
     ELSE <<ch[k]>> \o foreach_from_break(t, ch[k], skip_collapsed, 1)
                    \o foreach_from_break(t, c, skip_collapsed, k + 1)

RECURSIVE foreach_from(_, _, _, _)
\* The loop of foreach_item_recursive over the children of container c, from
\* child k on: the items handed to iter_fn, in call order.
foreach_from(t, c, skip_collapsed, k) ==
  LET ch == Container(t, c).children_
  IN IF k > Len(ch) THEN <<>>
     ELSE LET child == ch[k]
              below == IF skip_collapsed /\ is_collapsed(t, child)
                         THEN <<>>
                         ELSE foreach_from(t, child, skip_collapsed, 1)
          IN <<child>> \o below \o foreach_from(t, c, skip_collapsed, k + 1)

\* uiTreeViewItemContainer::foreach_item_recursive on container c.
foreach_item_recursive(t, c, skip_collapsed) == foreach_from(t, c, skip_collapsed, 1)

\* uiAbstractTreeView::foreach_item.
foreach_item(t, skip_collapsed) == foreach_item_recursive(t, ViewPtr, skip_collapsed)

\* ------------------------------------------------------------------ layout

\* uiBasicTreeViewItem::build_row: the tree-row button of item i.
item_build_row(t, i) ==
  [tree_item |-> i,
   label |-> t.items[i].label_,
   icon |-> get_draw_icon(t, i),
   func |-> "but_collapsed_toggle_fn",
   indentation |-> count_parents(t, i)]

\* uiTreeViewLayoutBuilder::build_row: one row holding the item's button.
build_row(t, i) == item_build_row(t, i)

\* build_layout_from_tree walking with IterOptions::None.
build_layout_from_tree_all(t) ==
  LET walk == foreach_item(t, FALSE)
  IN [k \in 1..Len(walk) |-> build_row(t, walk[k])]

\* uiAbstractTreeView::build_layout_from_tree: the rows of the column.
build_layout_from_tree(t) ==
  LET walk == foreach_item(t, TRUE)
  IN [k \in 1..Len(walk) |-> build_row(t, walk[k])]

\* ---------------------------------------------------------- reconciliation

\* A pair of trees under reconciliation.
Pair(n, o) == [new |-> n, old |-> o]

\* The loop of find_matching_child taking the child it stands at, whatever
\* its label.
find_from_unlabelled(p, lookup_item, c, k) ==
  LET ch == Container(p.old, c).children_
  IN IF k > Len(ch) THEN NullPtr ELSE ch[k]

RECURSIVE find_from(_, _, _, _)
\* The loop of find_matching_child from child k of the old container c on.
find_from(p, lookup_item, c, k) ==
  LET ch == Container(p.old, c).children_
  IN IF k > Len(ch) THEN NullPtr
     ELSE IF p.new.items[lookup_item].label_ = p.old.items[ch[k]].label_
       THEN ch[k]
       ELSE find_from(p, lookup_item, c, k + 1)

\* find_matching_child returning the last child with the label.
find_matching_child_last(p, lookup_item, c) ==
  LET ch == Container(p.old, c).children_
      ks == {k \in 1..Len(ch) :
               p.new.items[lookup_item].label_ = p.old.items[ch[k]].label_}
  IN IF ks = {} THEN NullPtr ELSE ch[CHOOSE k \in ks : \A m \in ks : m <= k]

\* find_matching_child without the comparison of labels.
find_matching_child_any(p, lookup_item, c) ==
  LET ch == Container(p.old, c).children_
  IN IF ch = <<>> THEN NullPtr ELSE ch[1]

\* uiAbstractTreeView::find_matching_child.
find_matching_child(p, lookup_item, c) == find_from(p, lookup_item, c, 1)

\* update_from_old assigning in the other direction.
item_update_from_old_reversed(p, i, o) ==
  [p EXCEPT !.old = SetField(p.old, o, "is_open_", p.new.items[i].is_open_)]

\* update_from_old copying nothing.
item_update_from_old_nothing(p, i, o) == p

\* update_from_old copying the active flag along with is_open_.
item_update_from_old_with_active(p, i, o) ==
  [p EXCEPT !.new = SetField(SetField(p.new, i, "is_open_", p.old.items[o].is_open_),
                             i, "is_active_", p.old.items[o].is_active_)]

\* uiAbstractTreeViewItem::update_from_old of new item i with old item o.
item_update_from_old(p, i, o) ==
  [p EXCEPT !.new = SetField(p.new, i, "is_open_", p.old.items[o].is_open_)]

RECURSIVE update_children_from_flat(_, _, _, _)
\* update_children_from_old_recursive recursing against the old container
\* itself instead of the matched old item.
update_children_from_flat(p, nc, oc, k) ==
  LET ch == Container(p.new, nc).children_
  IN IF k > Len(ch) THEN p
     ELSE LET new_item == ch[k]
              matching_old_item == find_matching_child(p, new_item, oc)
          IN IF matching_old_item = NullPtr
               THEN update_children_from_flat(p, nc, oc, k + 1)
               ELSE update_children_from_flat(
                      update_children_from_flat(
                        item_update_from_old(p, new_item, matching_old_item),
                        new_item, oc, 1),
                      nc, oc, k + 1)

RECURSIVE update_children_from_nth(_, _, _, _)
\* update_children_from_old_recursive matching the n-th new sibling with a
\* label to the n-th old sibling with that label.
update_children_from_nth(p, nc, oc, k) ==
  LET ch == Container(p.new, nc).children_
  IN IF k > Len(ch) THEN p
     ELSE LET new_item == ch[k]
              label == p.new.items[new_item].label_
              nth == Cardinality({m \in 1..k : p.new.items[ch[m]].label_ = label})
              och == Container(p.old, oc).children_
              oks == {m \in 1..Len(och) : p.old.items[och[m]].label_ = label}
              at == {m \in oks : Cardinality({q \in oks : q <= m}) = nth}
              matching_old_item == IF at = {} THEN NullPtr ELSE och[CHOOSE m \in at : TRUE]
          IN IF matching_old_item = NullPtr
               THEN update_children_from_nth(p, nc, oc, k + 1)
               ELSE update_children_from_nth(
                      update_children_from_nth(
                        item_update_from_old(p, new_item, matching_old_item),
                        new_item, matching_old_item, 1),
                      nc, oc, k + 1)

RECURSIVE update_children_from_descend(_, _, _, _)
\* update_children_from_old_recursive going on below a new item that has no
\* match, against the same old container.
update_children_from_descend(p, nc, oc, k) ==
  LET ch == Container(p.new, nc).children_
  IN IF k > Len(ch) THEN p
     ELSE LET new_item == ch[k]
              matching_old_item == find_matching_child(p, new_item, oc)
          IN IF matching_old_item = NullPtr
               THEN update_children_from_descend(
                      update_children_from_descend(p, new_item, oc, 1),
                      nc, oc, k + 1)
               ELSE update_children_from_descend(
                      update_children_from_descend(
                        item_update_from_old(p, new_item, matching_old_item),
                        new_item, matching_old_item, 1),
                      nc, oc, k + 1)

RECURSIVE update_children_from(_, _, _, _)
\* The loop of update_children_from_old_recursive over the children of the
\* new container nc, from child k on, against the old container oc.
update_children_from(p, nc, oc, k) ==
  LET ch == Container(p.new, nc).children_
  IN IF k > Len(ch) THEN p
     ELSE LET new_item == ch[k]
              matching_old_item == find_matching_child(p, new_item, oc)
          IN IF matching_old_item = NullPtr
               THEN update_children_from(p, nc, oc, k + 1)
               ELSE update_children_from(
                      update_children_from(
                        item_update_from_old(p, new_item, matching_old_item),
                        new_item, matching_old_item, 1),
                      nc, oc, k + 1)

\* uiAbstractTreeView::update_children_from_old_recursive.
update_children_from_old_recursive(p, nc, oc) == update_children_from(p, nc, oc, 1)

\* No old block, or no matching view in it.
NoOld == [exists |-> FALSE, view |-> uiTreeViewItemContainer, items |-> <<>>]

OldTree == Tree(old.view, old.items)

NewTree == Tree(view, items)

\* uiAbstractTreeView::update_from_old: the pair of trees it leaves.
update_from_old(n, o) ==
  IF ~o.exists THEN Pair(n, Tree(o.view, o.items))
  ELSE update_children_from_old_recursive(Pair(n, Tree(o.view, o.items)), ViewPtr, ViewPtr)

\* The old block is freed when the new block has been drawn.
FreeOldBlock == NoOld

\* ------------------------------------------------------------------ phases

\* build_tree_view laying out the rows before it reconciles.
NextPhase_render_first(ph) ==
  CASE ph = "idle" -> "build"
    [] ph = "build" -> "render"
    [] ph = "render" -> "reconcile"
    [] ph = "reconcile" -> "done"
    [] OTHER -> "idle"

\* uiTreeViewBuilder::build_tree_view: the phase that follows phase ph.
NextPhase(ph) ==
  CASE ph = "idle" -> "build"
    [] ph = "build" -> "reconcile"
    [] ph = "reconcile" -> "render"
    [] ph = "render" -> "done"
    [] OTHER -> "idle"

\* No foreach_item call has been made on the tree as it stands.
NoWalk == [called |-> FALSE, skip_collapsed |-> FALSE, items |-> <<>>]

\* ------------------------------------------------------- OBJ import node
\* node_geo_exec of the build with WITH_IO_WAVEFRONT_OBJ.

\* The import reports at most MaxReports diagnostics and at most
\* MaxGeometries geometries.
MaxReports == 2
MaxGeometries == 2

RPT_INFO == "RPT_INFO"
RPT_WARNING == "RPT_WARNING"
RPT_ERROR == "RPT_ERROR"
ReportTypes == {RPT_INFO, RPT_WARNING, RPT_ERROR}
Messages == {"m1", "m2"}

\* A Report of the ReportList.
Report == [type : ReportTypes, message : Messages]

\* The sequences over S of length at most n.
SeqUpTo(S, n) == UNION {[1..k -> S] : k \in 0..n}

\* What OBJ_import_geometries can leave behind: the report list and the
\* number of geometries.
ImportResults == [reports : SeqUpTo(Report, MaxReports), geometries : 0..MaxGeometries]

\* No execution yet: nothing surfaced, no output set.
NotExecuted ==
  [executed |-> FALSE, path |-> FALSE, import_called |-> FALSE,
   reports |-> <<>>, geometries |-> 0,
   warnings |-> <<>>, output |-> "unset", instances |-> 0]

\* The switch on report->type.
NodeWarningType(type) == IF type = RPT_ERROR THEN "Error" ELSE "Info"

\* params.error_message_add(type, message).
error_message_add(warnings, type, message) ==
  Append(warnings, [type |-> type, message |-> message])

RECURSIVE report_warnings_first(_, _, _)
\* Only the first report is surfaced.
report_warnings_first(reports, k, warnings) ==
  IF k > Len(reports) \/ k > 1 THEN warnings
  ELSE report_warnings_first(reports, k + 1,
         error_message_add(warnings, NodeWarningType(reports[k].type), reports[k].message))

RECURSIVE report_warnings(_, _, _)
\* LISTBASE_FOREACH over the report list from report k on.
report_warnings(reports, k, warnings) ==
  IF k > Len(reports) THEN warnings
  ELSE report_warnings(reports, k + 1,
         error_message_add(warnings, NodeWarningType(reports[k].type), reports[k].message))

\* node_geo_exec with a path that ensure_absolute_path accepts or not and
\* an import that returns `imported` if it is called.
node_geo_exec(path, imported) ==
  IF ~path
    THEN [NotExecuted EXCEPT !.executed = TRUE, !.output = "default"]
    ELSE LET warnings == report_warnings(imported.reports, 1, <<>>)
         IN IF imported.geometries = 0
              THEN [executed |-> TRUE, path |-> TRUE, import_called |-> TRUE,
                    reports |-> imported.reports, geometries |-> 0,
                    warnings |-> warnings, output |-> "default", instances |-> 0]
              ELSE [executed |-> TRUE, path |-> TRUE, import_called |-> TRUE,
                    reports |-> imported.reports, geometries |-> imported.geometries,
                    warnings |-> warnings, output |-> "Instances",
                    instances |-> imported.geometries]

\* ----------------------------------------------------------------- actions

Init ==
  /\ view = uiTreeViewItemContainer
  /\ items = <<>>
  /\ old = NoOld
  /\ pc = "idle"
  /\ rows = <<>>
  /\ has_view = FALSE
  /\ user_collapsed = {}
  /\ visited = NoWalk
  /\ node = NotExecuted
  /\ gone = {}

\* A redraw of the region: a new view is constructed and handed to
\* build_tree_view; the view drawn before is the old block's view.
BeginRedraw ==
  /\ pc = "idle"
  /\ pc' = NextPhase(pc)
  /\ old' = IF has_view THEN [exists |-> TRUE, view |-> view, items |-> items] ELSE NoOld
  /\ view' = uiTreeViewItemContainer
  /\ items' = <<>>
  /\ rows' = <<>>
  /\ visited' = NoWalk
  /\ UNCHANGED <<node, gone, has_view, user_collapsed>>

\* build_tree adds a new item with `label` to container c.
AddTreeItemNew(c, label) ==
  /\ pc = "build"
  /\ Len(items) < MaxItems
  /\ c \in {ViewPtr} \cup ItemIds(NewTree)
  /\ LET t == add_tree_item_new(NewTree, c, label)
     IN view' = t.view /\ items' = t.items
  /\ UNCHANGED <<node, gone, old, pc, rows, has_view, user_collapsed, visited>>

\* build_tree makes an item and keeps it for itself for now.
MakeItem(label) ==
  /\ pc = "build"
  /\ Len(items) < MaxItems
  /\ items' = Append(items, uiBasicTreeViewItem(label))
  /\ UNCHANGED <<node, gone, view, old, pc, rows, has_view, user_collapsed, visited>>

\* The container that holds item i, NullPtr while build_tree holds it.
Owner(t, i) ==
  IF i \in Range(t.view.children_) THEN ViewPtr
  ELSE IF \E j \in ItemIds(t) : i \in Range(t.items[j].children_)
    THEN CHOOSE j \in ItemIds(t) : i \in Range(t.items[j].children_)
    ELSE NullPtr

RECURSIVE Top(_, _)
\* The outermost container around c: the view, or an item build_tree holds.
Top(t, c) ==
  IF c = ViewPtr \/ Owner(t, c) = NullPtr THEN c ELSE Top(t, Owner(t, c))

\* build_tree hands an item it holds to container c.
AddTreeItem(c, i) ==
  /\ pc = "build"
  /\ i \in ItemIds(NewTree)
  /\ Owner(NewTree, i) = NullPtr
  /\ c \in {ViewPtr} \cup ItemIds(NewTree)
  /\ Top(NewTree, c) # i
  /\ LET t == add_tree_item(NewTree, c, i)
     IN view' = t.view /\ items' = t.items
  /\ UNCHANGED <<node, gone, old, pc, rows, has_view, user_collapsed, visited>>

\* build_tree sets the collapsed state of an item it made.
SetCollapsed(i, collapsed) ==
  /\ pc = "build"
  /\ i \in ItemIds(NewTree)
  /\ items' = set_collapsed(NewTree, i, collapsed).items
  /\ UNCHANGED <<node, gone, view, old, pc, rows, has_view, user_collapsed, visited>>

\* build_tree returns; every item it made is in the tree.
EndBuild ==
  /\ pc = "build"
  /\ \A i \in ItemIds(NewTree) : Owner(NewTree, i) # NullPtr
  /\ pc' = NextPhase(pc)
  /\ UNCHANGED <<node, gone, view, items, old, rows, has_view, user_collapsed, visited>>

\* tree_view.update_from_old(block_).
Reconcile ==
  /\ pc = "reconcile"
  /\ LET p == update_from_old(NewTree, old)
     IN /\ view' = p.new.view
        /\ items' = p.new.items
        /\ old' = [old EXCEPT !.view = p.old.view, !.items = p.old.items]
  /\ pc' = NextPhase(pc)
  /\ UNCHANGED <<node, gone, rows, has_view, user_collapsed, visited>>

\* tree_view.build_layout_from_tree(...).
Render ==
  /\ pc = "render"
  /\ rows' = build_layout_from_tree(NewTree)
  /\ pc' = NextPhase(pc)
  /\ UNCHANGED <<node, gone, view, items, old, has_view, user_collapsed, visited>>

\* The block is complete: the old block is freed.
EndBlock ==
  /\ pc = "done"
  /\ pc' = NextPhase(pc)
  /\ old' = FreeOldBlock
  /\ has_view' = TRUE
  /\ user_collapsed' = {}
  /\ gone' = {old.items[o].label_ : o \in {o \in Range(old.view.children_) : old.items[o].is_open_}}
               \ {items[i].label_ : i \in Range(view.children_)}
  /\ UNCHANGED <<node, view, items, rows, visited>>

\* but_collapsed_toggle_fn: the user clicks the tree-row button rows[k].
UserToggle(k) ==
  /\ pc = "idle"
  /\ k \in 1..Len(rows)
  /\ rows[k].func = "but_collapsed_toggle_fn"
  /\ LET i == rows[k].tree_item
         t == toggle_collapsed(NewTree, i)
     IN /\ items' = t.items
        /\ user_collapsed' = IF t.items[i].is_open_
                               THEN user_collapsed \ {i}
                               ELSE user_collapsed \cup {i}
  /\ visited' = NoWalk
  /\ UNCHANGED <<node, gone, view, old, pc, rows, has_view>>

\* The user activates the item of the tree-row button rows[k].
SetActive(k) ==
  /\ pc = "idle"
  /\ k \in 1..Len(rows)
  /\ ~items[rows[k].tree_item].is_active_
  /\ items' = set_active(NewTree, rows[k].tree_item, TRUE).items
  /\ visited' = NoWalk
  /\ UNCHANGED <<node, gone, view, old, pc, rows, has_view, user_collapsed>>

\* foreach_item is called on the drawn view.
ForeachItem(skip_collapsed) ==
  /\ pc = "idle"
  /\ has_view
  /\ visited' = [called |-> TRUE, skip_collapsed |-> skip_collapsed,
                  items |-> foreach_item(NewTree, skip_collapsed)]
  /\ UNCHANGED <<node, gone, view, items, old, pc, rows, has_view, user_collapsed>>

\* Repeated redraws of one region; build_tree adds items top-down.
Next ==
  \/ BeginRedraw
  \/ \E c \in 0..MaxItems, label \in Labels : AddTreeItemNew(c, label)
  \/ \E i \in 1..MaxItems, collapsed \in BOOLEAN : SetCollapsed(i, collapsed)
  \/ EndBuild
  \/ Reconcile
  \/ Render
  \/ EndBlock
  \/ \E k \in 1..MaxItems : UserToggle(k)

Spec == Init /\ [][Next]_vars

\* The first redraw of a region; build_tree adds items in any order.
NextFirst ==
  \/ ~has_view /\ BeginRedraw
  \/ \E c \in 0..MaxItems, label \in SceneLabels : AddTreeItemNew(c, label)
  \/ \E label \in SceneLabels : MakeItem(label)
  \/ \E c \in 0..MaxItems, i \in 1..MaxItems : AddTreeItem(c, i)
  \/ \E i \in 1..MaxItems, collapsed \in BOOLEAN : SetCollapsed(i, collapsed)
  \/ EndBuild
  \/ Reconcile
  \/ Render
  \/ EndBlock
  \/ \E k \in 1..MaxItems : UserToggle(k)
  \/ \E skip_collapsed \in BOOLEAN : ForeachItem(skip_collapsed)

SpecFirst == Init /\ [][NextFirst]_vars

\* Repeated redraws of one region whose items the user opens, closes and
\* activates between redraws; build_tree leaves its items closed and gives
\* them all one label.
NextActive ==
  \/ BeginRedraw
  \/ \E c \in 0..MaxItems, label \in ActiveLabels : AddTreeItemNew(c, label)
  \/ EndBuild
  \/ Reconcile
  \/ Render
  \/ EndBlock
  \/ \E k \in 1..MaxItems : UserToggle(k)
  \/ \E k \in 1..MaxItems : SetActive(k)

SpecActive == Init /\ [][NextActive]_vars

\* The node is evaluated: node_geo_exec runs from start to end.
NodeGeoExec(path, imported) ==
  /\ node' = node_geo_exec(path, imported)
  /\ UNCHANGED <<view, items, old, pc, rows, has_view, user_collapsed, visited, gone>>

\* Evaluations of the import node on any path and any import result.
NextImport ==
  \E path \in BOOLEAN, imported \in ImportResults : NodeGeoExec(path, imported)

SpecImport == Init /\ [][NextImport]_vars

\* ------------------------------------------------- structure of a tree

RECURSIVE Ancestors(_, _)
\* The items that hold item i, directly or not.
Ancestors(t, i) ==
  LET own == Owner(t, i)
  IN IF own = ViewPtr \/ own = NullPtr THEN {} ELSE {own} \cup Ancestors(t, own)

\* Item i is in the view's tree.
InTree(t, i) == Top(t, i) = ViewPtr

\* The items of the view's tree.
TreeItems(t) == {i \in ItemIds(t) : InTree(t, i)}

\* The number of items between item i and the view.
Depth(t, i) == Cardinality(Ancestors(t, i))

\* The position of item i among the children of the container that holds it.
Position(t, i) ==
  LET ch == Container(t, Owner(t, i)).children_
  IN CHOOSE k \in 1..Len(ch) : ch[k] = i

RECURSIVE IndexPath(_, _)
\* The child positions that lead from the view to item i.
IndexPath(t, i) ==
  IF Owner(t, i) = ViewPtr THEN <<Position(t, i)>>
  ELSE Append(IndexPath(t, Owner(t, i)), Position(t, i))

\* Path a comes before path b in depth-first pre-order.
PreOrderBefore(a, b) ==
  \/ Len(a) < Len(b) /\ \A k \in 1..Len(a) : a[k] = b[k]
  \/ \E k \in 1..Len(a) :
       /\ k <= Len(b)
       /\ a[k] < b[k]
       /\ \A m \in 1..(k - 1) : a[m] = b[m]

\* Sequence s lists the items of set S, each once, in depth-first pre-order.
ListsInPreOrder(t, s, S) ==
  /\ Range(s) = S
  /\ Len(s) = Cardinality(S)
  /\ \A k, m \in 1..Len(s) :
       k < m => PreOrderBefore(IndexPath(t, s[k]), IndexPath(t, s[m]))

\* The items none of whose ancestors is collapsed.
Uncovered(t) ==
  {i \in TreeItems(t) : \A a \in Ancestors(t, i) : ~is_collapsed(t, a)}

RECURSIVE Shape(_, _)
\* The labels of the tree below container c, in child order.
Shape(t, c) ==
  LET ch == Container(t, c).children_
  IN [k \in 1..Len(ch) |-> <<t.items[ch[k]].label_, Shape(t, ch[k])>>]

RECURSIVE OpenShape(_, _)
\* The labels and is_open values of the tree below container c, in child order.
OpenShape(t, c) ==
  LET ch == Container(t, c).children_
  IN [k \in 1..Len(ch) |->
        <<t.items[ch[k]].label_, t.items[ch[k]].is_open_, OpenShape(t, ch[k])>>]

\* No two children of one container of t share a label.
UniqueSiblingLabels(t) ==
  \A c \in {ViewPtr} \cup ItemIds(t) :
    LET ch == Container(t, c).children_
    IN \A k, m \in 1..Len(ch) :
         t.items[ch[k]].label_ = t.items[ch[m]].label_ => k = m

\* The first child, in child order, of container c of tree o that carries
\* `label`; NullPtr when c is null or no child carries it.
FirstWithLabel(o, c, label) ==
  IF c = NullPtr THEN NullPtr
  ELSE LET ch == Container(o, c).children_
           ks == {k \in 1..Len(ch) : o.items[ch[k]].label_ = label}
       IN IF ks = {} THEN NullPtr
          ELSE ch[CHOOSE k \in ks : \A m \in ks : k <= m]

RECURSIVE Counterpart(_, _, _)
\* The old item that stands for new item i: the first child with i's label
\* of the old container that stands for the container holding i.
Counterpart(n, o, i) ==
  FirstWithLabel(o,
                 IF Owner(n, i) = ViewPtr THEN ViewPtr ELSE Counterpart(n, o, Owner(n, i)),
                 n.items[i].label_)

\* The old container that corresponds to the container holding new item i.
OldContainerOf(n, o, i) ==
  IF Owner(n, i) = ViewPtr THEN ViewPtr ELSE Counterpart(n, o, Owner(n, i))

\* Item i and every item above it is the first of its siblings with its label.
FirstOfLabelPath(t, i) ==
  \A j \in {i} \cup Ancestors(t, i) :
    FirstWithLabel(t, Owner(t, j), t.items[j].label_) = j

\* A step of Reconcile against the view of the previous redraw.
ReconcileStep == pc = "reconcile" /\ pc' = "render" /\ old.exists

\* Reconcile has run against the view of the previous redraw.
Reconciled == pc \in {"render", "done"} /\ old.exists

\* ------------------------------------------------------------------ claims

\* C1 as stated: reconciling a freshly built copy (same structure, labels and
\* is_open values, siblings that share a label included) against the original
\* leaves the is_open of every item of the copy as it was.
C1_CopyUnchanged ==
  [][ReconcileStep /\ OpenShape(NewTree, ViewPtr) = OpenShape(OldTree, ViewPtr)
       => \A i \in ItemIds(NewTree) : items'[i].is_open_ = items[i].is_open_]_vars

\* C1 amended: reconciling such a copy leaves is_open as it was for every item
\* that is the first of its siblings with its label and whose ancestors all
\* are too; that is every item when no siblings share a label.
C1_CopyUnchangedOnFirstOfLabel ==
  [][ReconcileStep /\ OpenShape(NewTree, ViewPtr) = OpenShape(OldTree, ViewPtr)
       => \A i \in ItemIds(NewTree) :
            FirstOfLabelPath(NewTree, i) => items'[i].is_open_ = items[i].is_open_]_vars

\* C1 witness: a copy with a nested item, siblings with unique labels and
\* mixed is_open values has been reconciled against its original.
C1_Witness ==
  /\ Reconciled
  /\ pc = "render"
  /\ OpenShape(NewTree, ViewPtr) = OpenShape(OldTree, ViewPtr)
  /\ UniqueSiblingLabels(NewTree)
  /\ \E i, j \in ItemIds(NewTree) :
       /\ Owner(NewTree, j) = i
       /\ items[i].is_open_
       /\ ~items[j].is_open_

\* C3: reconciliation gives every new item that has a match the is_open of
\* the first item, in child order, of the corresponding old container whose
\* label equals its own; with old siblings A, B, A and new siblings A, B the
\* new A gets the is_open of the first old A.
C3_FirstMatchWins ==
  [][ReconcileStep
       => \A i \in ItemIds(NewTree) :
            Counterpart(NewTree, OldTree, i) # NullPtr
              => items'[i].is_open_
                   = old.items[Counterpart(NewTree, OldTree, i)].is_open_]_vars

\* C3 witness: old siblings A, B, A whose two A differ in is_open, new
\* siblings A, B, reconciled: the new A carries the state of the first old A.
C3_Witness ==
  /\ Reconciled
  /\ Len(old.view.children_) = 3
  /\ Len(view.children_) = 2
  /\ [k \in 1..3 |-> old.items[old.view.children_[k]].label_] = <<"A", "B", "A">>
  /\ [k \in 1..2 |-> items[view.children_[k]].label_] = <<"A", "B">>
  /\ old.items[old.view.children_[1]].is_open_ # old.items[old.view.children_[3]].is_open_
  /\ items[view.children_[1]].is_open_ = old.items[old.view.children_[1]].is_open_

\* C9: Reconcile leaves the view of the previous redraw as it was: no label,
\* is_open, is_active, child list, root or parent link of it changes.
C9_OldReadOnly ==
  [][pc = "reconcile" => old' = old]_vars

\* C9 witness: Reconcile has run and an item took its state from an old item.
C9_Witness ==
  /\ Reconciled
  /\ \E i \in ItemIds(NewTree) :
       /\ Counterpart(NewTree, OldTree, i) # NullPtr
       /\ items[i].is_open_

\* C10 as stated: after Reconcile every new item whose corresponding old
\* container holds no item with its label has is_open and is_active false.
C10_UnmatchedDefault ==
  Reconciled
    => \A i \in ItemIds(NewTree) :
         /\ OldContainerOf(NewTree, OldTree, i) # NullPtr
         /\ Counterpart(NewTree, OldTree, i) = NullPtr
         => ~items[i].is_open_ /\ ~items[i].is_active_

\* C10 amended: Reconcile leaves every such item with the is_open and
\* is_active that Build left it with.
C10_UnmatchedKeepsBuildState ==
  [][ReconcileStep
       => \A i \in ItemIds(NewTree) :
            /\ OldContainerOf(NewTree, OldTree, i) # NullPtr
            /\ Counterpart(NewTree, OldTree, i) = NullPtr
            => /\ items'[i].is_open_ = items[i].is_open_
               /\ items'[i].is_active_ = items[i].is_active_]_vars

\* C10 witness: Reconcile has run, and an item that Build opened and that has
\* no match beside a sibling that has one is still open.
C10_Witness ==
  /\ Reconciled
  /\ \E i, j \in ItemIds(NewTree) :
       /\ OldContainerOf(NewTree, OldTree, i) # NullPtr
       /\ Counterpart(NewTree, OldTree, i) = NullPtr
       /\ items[i].is_open_
       /\ Owner(NewTree, j) = Owner(NewTree, i)
       /\ Counterpart(NewTree, OldTree, j) # NullPtr

\* The items below item i.
Descendants(t, i) == {j \in ItemIds(t) : i \in Ancestors(t, j)}

\* The items that have a row, and the items and labels of the rows in order.
RowItems == {rows[k].tree_item : k \in 1..Len(rows)}

RowItemSeq == [k \in 1..Len(rows) |-> rows[k].tree_item]

RowLabels == [k \in 1..Len(rows) |-> rows[k].label]

\* C2 as stated: every item of the view's tree has the view as root, at every
\* depth and whatever the order of the add_tree_item calls, and no container
\* of the tree has a null root once the tree holds an item.
C2_RootPropagation ==
  /\ \A i \in TreeItems(NewTree) : items[i].root_ = ViewPtr
  /\ view.children_ # <<>>
       => /\ view.root_ # NullPtr
          /\ \A i \in TreeItems(NewTree) : items[i].root_ # NullPtr

\* C8 as stated: count_parents() of every item of the view's tree is the
\* number of items between it and the view, and that is the indentation of
\* its row.
C8_CountParents ==
  /\ \A i \in TreeItems(NewTree) : count_parents(NewTree, i) = Depth(NewTree, i)
  /\ pc = "done"
       => \A k \in 1..Len(rows) :
            rows[k].indentation = Depth(NewTree, rows[k].tree_item)

\* C5: foreach_item with SkipCollapsed hands to iter_fn, in depth-first
\* pre-order and each once, exactly the items none of whose ancestors is
\* collapsed (a collapsed item itself, none of its descendants); without it,
\* every item of the tree, each once.
C5_SkipCollapsedPruning ==
  visited.called
    => ListsInPreOrder(NewTree, visited.items,
                       IF visited.skip_collapsed
                         THEN Uncovered(NewTree)
                         ELSE TreeItems(NewTree))

\* C5 witness: a three-level tree whose middle item is collapsed has been
\* walked with SkipCollapsed: the top and the middle item were visited.
C5_Witness ==
  /\ visited.called
  /\ visited.skip_collapsed
  /\ \E a, b, c \in ItemIds(NewTree) :
       /\ Owner(NewTree, a) = ViewPtr
       /\ Owner(NewTree, b) = a
       /\ Owner(NewTree, c) = b
       /\ items[a].is_open_
       /\ is_collapsed(NewTree, b)
       /\ visited.items = <<a, b>>

\* Scene holding Mesh and Camera.
SceneShape == <<<<"Scene", <<<<"Mesh", <<>>>>, <<"Camera", <<>>>>>>>>>>

\* C6: Render emits one row per item of the skip-collapsed pre-order walk, in
\* that order, none twice and none for an item with a collapsed ancestor;
\* the first redraw of Scene (open) holding Mesh and Camera gives the rows
\* Scene, Mesh, Camera.
C6_RenderRows ==
  pc = "done"
    => /\ ListsInPreOrder(NewTree, RowItemSeq, Uncovered(NewTree))
       /\ \A k \in 1..Len(rows) : rows[k].label = items[rows[k].tree_item].label_
       /\ (Shape(NewTree, ViewPtr) = SceneShape /\ items[view.children_[1]].is_open_)
            => RowLabels = <<"Scene", "Mesh", "Camera">>

\* C6 witness: the first redraw of Scene (open) holding Mesh and Camera has
\* been rendered.
C6_Witness ==
  /\ pc = "done"
  /\ ~has_view
  /\ Shape(NewTree, ViewPtr) = SceneShape
  /\ items[view.children_[1]].is_open_
  /\ RowLabels = <<"Scene", "Mesh", "Camera">>

\* C7: build_tree_view runs Build, Reconcile, Render in that order, each once
\* per call: the phases follow each other in this order only, no row exists
\* before Reconcile has finished, and no item is added once Reconcile has
\* started.
C7_PhaseOrder ==
  [][/\ pc' # pc
          => <<pc, pc'>> \in {<<"idle", "build">>, <<"build", "reconcile">>,
                              <<"reconcile", "render">>, <<"render", "done">>,
                              <<"done", "idle">>}
     /\ pc' \in {"build", "reconcile", "render"} => rows' = <<>>
     /\ rows' # rows /\ rows' # <<>> => pc = "render"
     /\ pc \in {"reconcile", "render", "done"}
          => /\ Len(items') = Len(items)
             /\ Shape(NewTree', ViewPtr) = Shape(NewTree, ViewPtr)]_vars

\* C7 witness: a call has run its three phases: items were built, one took
\* its state from the previous redraw and rows were laid out.
C7_Witness ==
  /\ pc = "done"
  /\ old.exists
  /\ rows # <<>>
  /\ \E i \in ItemIds(NewTree) :
       /\ Counterpart(NewTree, OldTree, i) # NullPtr
       /\ items[i].is_open_

\* Build has reproduced the tree of the previous redraw, whose siblings have
\* unique labels, and Reconcile has run.
Rebuilt ==
  /\ Reconciled
  /\ Shape(NewTree, ViewPtr) = Shape(OldTree, ViewPtr)
  /\ UniqueSiblingLabels(NewTree)

\* The items with children of the previous redraw that a user toggle left
\* collapsed.
UserCollapsedOld ==
  {o \in user_collapsed : old.items[o].children_ # <<>> /\ ~old.items[o].is_open_}

\* The new item that stands for old item o.
NewOf(o) == CHOOSE i \in ItemIds(NewTree) : Counterpart(NewTree, OldTree, i) = o

\* C4 as stated: an item with children that a user toggle collapsed after the
\* previous redraw is, after Reconcile of a rebuild of the same tree, not
\* open, and Render emits a row for it and none for its descendants.
C4_CollapseSurvives ==
  Rebuilt
    => \A o \in UserCollapsedOld :
         /\ ~items[NewOf(o)].is_open_
         /\ pc = "done"
              => /\ NewOf(o) \in RowItems
                 /\ Descendants(NewTree, NewOf(o)) \cap RowItems = {}

\* C4 amended: such an item is not open after Reconcile, Render emits no row
\* for any of its descendants, and emits a row for the item exactly when
\* none of its ancestors is collapsed, which is so when it is the only item
\* the user collapsed since the previous redraw.
C4_CollapseSurvivesUnlessCovered ==
  Rebuilt
    => \A o \in UserCollapsedOld :
         /\ ~items[NewOf(o)].is_open_
         /\ pc = "done"
              => /\ NewOf(o) \in RowItems
                      <=> \A a \in Ancestors(NewTree, NewOf(o)) : ~is_collapsed(NewTree, a)
                 /\ user_collapsed = {o} => NewOf(o) \in RowItems
                 /\ Descendants(NewTree, NewOf(o)) \cap RowItems = {}

\* C4 witness: the rebuild of a tree in which the user collapsed a nested
\* item with children has been rendered: the item has a row, its child none.
C4_Witness ==
  /\ Rebuilt
  /\ pc = "done"
  /\ \E o \in UserCollapsedOld :
       /\ Owner(NewTree, NewOf(o)) # ViewPtr
       /\ NewOf(o) \in RowItems
       /\ Descendants(NewTree, NewOf(o)) # {}
       /\ Descendants(NewTree, NewOf(o)) \cap RowItems = {}


\* ------------------------------------------------------ import node claims

\* The report list of the last execution holds an RPT_ERROR report.
HasError(reports) == \E k \in 1..Len(reports) : reports[k].type = RPT_ERROR

\* C11: whenever the report list the import returned holds at least one
\* RPT_ERROR report, the node sets the default (empty) output and no
\* instance, whatever number of geometries the import returned.
C11_ErrorShortCircuit ==
  (node.executed /\ node.import_called /\ HasError(node.reports))
    => (node.output = "default" /\ node.instances = 0)

\* C12: with a valid path the import is called and report k of its list is
\* warning k of the node, with the same message, typed Error for RPT_ERROR
\* and Info otherwise, whether the output is the instances or the default;
\* with no valid path the import is not called, no warning is surfaced and
\* the default output is set.
C12_MessageRelay ==
  node.executed =>
    IF node.path
      THEN /\ node.import_called
           /\ Len(node.warnings) = Len(node.reports)
           /\ \A k \in 1..Len(node.reports) :
                /\ node.warnings[k].message = node.reports[k].message
                /\ node.warnings[k].type =
                     (IF node.reports[k].type = RPT_ERROR THEN "Error" ELSE "Info")
           /\ node.output \in {"default", "Instances"}
      ELSE /\ ~node.import_called
           /\ node.warnings = <<>>
           /\ node.output = "default"

\* An import that reported a warning and then an error, with different
\* messages, and returned geometries: both are surfaced, in that order.
C12_Witness ==
  /\ node.executed /\ node.path
  /\ Len(node.reports) = 2
  /\ node.reports[1].type = RPT_WARNING /\ node.reports[2].type = RPT_ERROR
  /\ node.reports[1].message # node.reports[2].message
  /\ node.warnings[1].type = "Info" /\ node.warnings[2].type = "Error"
  /\ node.output = "Instances"


\* ------------------------------------------------------ collapsing claims

\* C13: a row carries a collapse indicator and a click trigger only if its
\* item is collapsible: the row of a leaf shows no collapse icon, and no
\* click on a row changes the is_open of a leaf.
C13_CollapseAffordance ==
  [][(pc = "idle" /\ pc' = "idle")
       => \A k \in 1..Len(rows) :
            LET i == rows[k].tree_item
            IN ~is_collapsible(NewTree, i)
                 => /\ rows[k].icon \notin {ICON_TRIA_RIGHT, ICON_TRIA_DOWN}
                    /\ items'[i].is_open_ = items[i].is_open_]_vars


\* C14: for every item of every reachable state is_collapsed() is true
\* exactly when the item has at least one child and is_open is false; a leaf
\* is not collapsed, also after set_collapsed(true), and set_collapsed(c)
\* leaves is_open = ~c.
C14_CollapsedState ==
  \A i \in ItemIds(NewTree) :
    /\ is_collapsed(NewTree, i)
         <=> (Len(items[i].children_) >= 1 /\ items[i].is_open_ = FALSE)
    /\ Len(items[i].children_) = 0
         => /\ ~is_collapsed(NewTree, i)
            /\ ~is_collapsed(set_collapsed(NewTree, i, TRUE), i)
    /\ \A c \in BOOLEAN :
         set_collapsed(NewTree, i, c).items[i].is_open_ = ~c

\* C14 witness: build_tree has called set_collapsed on its items: an open
\* leaf, a closed leaf, and a closed item with a child, which is collapsed.
C14_Witness ==
  /\ pc = "build"
  /\ \E i, j, k \in ItemIds(NewTree) :
       /\ items[i].children_ = <<>> /\ items[i].is_open_
       /\ items[j].children_ = <<>> /\ ~items[j].is_open_
       /\ items[k].children_ # <<>> /\ ~items[k].is_open_
       /\ is_collapsed(NewTree, k)


\* The items of the drawn view that a step between redraws leaves different.
ChangedItems == {i \in ItemIds(NewTree) : items'[i] # items[i]}

\* C15: a toggle_collapsed() call changes nothing but the is_open of the item
\* it is called on (no other item, no label, child list, is_active, root or
\* parent, and nothing of the view), it does change that is_open, and a
\* second call on the same item restores is_open and is_collapsed().
C15_ToggleInverse ==
  [][(pc = "idle" /\ pc' = "idle" /\ items' # items)
       => /\ view' = view
          /\ Len(items') = Len(items)
          /\ \E i \in ItemIds(NewTree) :
               /\ ChangedItems = {i}
               /\ items'[i] = [items[i] EXCEPT !.is_open_ = ~items[i].is_open_]
               /\ LET again == toggle_collapsed(Tree(view', items'), i)
                  IN /\ again = NewTree
                     /\ is_collapsed(again, i) = is_collapsed(NewTree, i)]_vars

\* C15 witness: the user's click has collapsed an item that has a child.
C15_Witness ==
  /\ pc = "idle"
  /\ \E i \in user_collapsed :
       /\ items[i].children_ # <<>>
       /\ is_collapsed(NewTree, i)


\* ------------------------------------------------------- container claims

\* The items that are a child of some container of tree t.
Owned(t) == {i \in ItemIds(t) : Owner(t, i) # NullPtr}

\* The tree build_tree holds before the step: an item the step constructs
\* is there as constructed, in no container yet.
BeforeAdd ==
  Tree(view, IF Len(items') > Len(items)
               THEN Append(items, uiBasicTreeViewItem(items'[Len(items')].label_))
               ELSE items)

\* C16: an add_tree_item call appends the item to the children of the
\* container it is called on and returns that item; no step of build_tree
\* removes or reorders a child of any container, and no item is a child
\* twice, so a children list is the added items in call order.
C16_OrderPreservation ==
  [][(pc = "build" /\ pc' = "build")
       => LET after == Tree(view', items')
          IN /\ \A c \in {ViewPtr} \cup ItemIds(NewTree) :
                  LET ch == Container(NewTree, c).children_
                      ch1 == Container(after, c).children_
                  IN \/ ch1 = ch
                     \/ \E i \in ItemIds(after) \ Owned(NewTree) :
                          /\ ch1 = Append(ch, i)
                          /\ after = add_tree_item(BeforeAdd, c, i)
                          /\ add_tree_item_result(BeforeAdd, c, i) = i
             /\ \A c \in {ViewPtr} \cup ItemIds(after) :
                  LET ch1 == Container(after, c).children_
                  IN /\ Cardinality(Range(ch1)) = Len(ch1)
                     /\ \A d \in ({ViewPtr} \cup ItemIds(after)) \ {c} :
                          Range(ch1) \cap Range(Container(after, d).children_) = {}]_vars

\* C16 witness: the view got the items made third, first and second, in
\* that order of add_tree_item calls.
C16_Witness ==
  /\ pc = "build"
  /\ view.children_ = <<3, 1, 2>>


\* -------------------------------------------------- reconciliation claims

\* The children of old item m that carry the label of new item i.
SameLabelChildren(m, i) ==
  {o \in Range(old.items[m].children_) : old.items[o].label_ = items[i].label_}

\* C17: matching follows the label path.  An item below an item that has no
\* match (directly or further up) keeps the is_open Build gave it, whatever
\* items with its label the old tree holds elsewhere; an item below a matched
\* item gets its is_open from a child of the matched old item that carries
\* its label, and keeps Build's when that old item has no such child.
C17_LabelPath ==
  [][ReconcileStep
       => \A i \in ItemIds(NewTree) :
            Owner(NewTree, i) # ViewPtr
              => LET m == Counterpart(NewTree, OldTree, Owner(NewTree, i))
                 IN IF m = NullPtr \/ SameLabelChildren(m, i) = {}
                      THEN items'[i].is_open_ = items[i].is_open_
                      ELSE \E o \in SameLabelChildren(m, i) :
                             items'[i].is_open_ = old.items[o].is_open_]_vars

\* C17 witness: Reconcile has run; an item that Build opened, below an item
\* without a match, is still open although the old tree holds a closed item
\* with its label under another parent.
C17_Witness ==
  /\ Reconciled
  /\ \E i \in ItemIds(NewTree) :
       /\ Owner(NewTree, i) # ViewPtr
       /\ Counterpart(NewTree, OldTree, Owner(NewTree, i)) = NullPtr
       /\ items[i].is_open_
       /\ \E o \in ItemIds(OldTree) :
            /\ old.items[o].label_ = items[i].label_
            /\ ~old.items[o].is_open_


\* C18: persisted state spans one generation.  A Reconcile step gives an
\* item either the is_open Build gave it or that of an item with its label
\* of the view of the previous redraw as the user left it; a top-level item
\* whose label was on an open item two redraws ago and on no top-level item
\* of the previous redraw keeps the is_open Build gave it; and with no
\* previous view Reconcile changes nothing.
C18_OneGeneration ==
  [][pc = "reconcile" /\ pc' = "render"
       => IF old.exists
            THEN /\ \A i \in ItemIds(NewTree) :
                      \/ items'[i].is_open_ = items[i].is_open_
                      \/ \E o \in ItemIds(OldTree) :
                           /\ old.items[o].label_ = items[i].label_
                           /\ items'[i].is_open_ = old.items[o].is_open_
                 /\ \A i \in Range(view.children_) :
                      items[i].label_ \in gone
                        => items'[i].is_open_ = items[i].is_open_
            ELSE items' = items /\ view' = view]_vars

\* C18 witness: a label that was on an open top-level item two redraws ago
\* and absent from the previous redraw is back on a top-level item, built
\* closed and still closed after Reconcile, beside an item that has a match.
C18_Witness ==
  /\ Reconciled
  /\ \E i, j \in Range(view.children_) :
       /\ items[i].label_ \in gone
       /\ ~items[i].is_open_
       /\ Counterpart(NewTree, OldTree, j) # NullPtr
       /\ items[j].is_open_


\* C19: after Reconcile all siblings of the new tree that share a label and
\* have a match in the corresponding old container hold one is_open value,
\* that of the first old sibling with the label, whatever the is_open of the
\* later old siblings with the label.
C19_SameLabelSiblings ==
  Reconciled
    => \A i, j \in ItemIds(NewTree) :
         /\ Owner(NewTree, i) = Owner(NewTree, j)
         /\ items[i].label_ = items[j].label_
         /\ OldContainerOf(NewTree, OldTree, i) # NullPtr
         /\ FirstWithLabel(OldTree, OldContainerOf(NewTree, OldTree, i), items[i].label_) # NullPtr
         => LET first == FirstWithLabel(OldTree, OldContainerOf(NewTree, OldTree, i),
                                        items[i].label_)
            IN /\ items[i].is_open_ = old.items[first].is_open_
               /\ items[j].is_open_ = old.items[first].is_open_

\* C19 witness: old siblings A (open), A (closed), new siblings A, A,
\* reconciled: both new A are open.
C19_Witness ==
  /\ Reconciled
  /\ Len(old.view.children_) = 2
  /\ Len(view.children_) = 2
  /\ \A k \in 1..2 : old.items[old.view.children_[k]].label_ = "A"
  /\ \A k \in 1..2 : items[view.children_[k]].label_ = "A"
  /\ old.items[old.view.children_[1]].is_open_
  /\ ~old.items[old.view.children_[2]].is_open_
  /\ \A k \in 1..2 : items[view.children_[k]].is_open_


====
